---- MODULE Spec2Model ----
(***************************************************************************)
(* Model of src/models.py: the relational schema (Stock, StockPrice,       *)
(* Portfolio, PortfolioStock) with its integrity rules, and the valuation  *)
(* methods Stock.price, PortfolioStock.value_at / current_value,           *)
(* Portfolio.total_value, Portfolio.profit and Portfolio.annualized_return.*)
(*                                                                         *)
(* Tables are bags of rows: a table may hold several rows that agree on    *)
(* every declared column (they differ only in the automatic primary key).  *)
(* Dates are day ordinals, so (end_date - start_date).days is e - s.       *)
(* Prices are integers small enough that every product and sum the code    *)
(* forms is exact in IEEE double arithmetic, so integer arithmetic is the  *)
(* code's float arithmetic on these inputs.                                *)
(***************************************************************************)
EXTENDS Integers, FiniteSets, Sequences, Bags, TLC

\* ---- bounds of the exploration ----
\* rows carry dates 1..MaxDate; calls ask about the days 0..MaxDate+1, so that a
\* call can fall before, on, between and after the stored dates
MaxDate == 2
\* rows per table
MaxPriceRows == 2
MaxHoldings == 2

\* ---- universes the inputs are drawn from ----
StockIds == {1, 2}
PortfolioIds == {1, 2}
Dates == 1..MaxDate
QueryDates == 0..(MaxDate + 1)
Quantities == {1, 2}
\* price values stored in StockPrice.price: 0, and the 10 and 12 of the
\* documented example
PriceValues == {0, 10, 12}

VARIABLES stocks, portfolios, prices, holdings, last

vars == <<stocks, portfolios, prices, holdings, last>>

\* ---- outcomes of an operation; line is the source line that ends it ----
Return(v, line) == [kind |-> "value", value |-> v, line |-> line]
ReturnNone(line) == [kind |-> "none", line |-> line]
Raise(exc, line) == [kind |-> "raise", exc |-> exc, line |-> line]
\* what line 102 computes, kept symbolic: (end_value / start_value) ** (1 / years) - 1
\* with years = years_num / years_den
Formula(ev, sv, num, den, line) ==
  [kind |-> "formula", end_value |-> ev, start_value |-> sv,
   years_num |-> num, years_den |-> den, line |-> line]
\* a save the store accepted
Saved == [kind |-> "ok"]
\* Model.delete() returns how many rows went, the cascaded ones included
Deleted(n) == [kind |-> "deleted", rows |-> n]

\* ---- rows ----
StockPrice == [stock : StockIds, date : Dates, price : PriceValues]
PortfolioStock == [stock : StockIds, portfolio : PortfolioIds, quantity : Quantities]

\* one copy of a row, as a bag
OneRow(r) == SetToBag({r})

\* stockprice_set of stock s: the StockPrice rows whose foreign key is s
stockprice_set(s) ==
  [r \in {x \in BagToSet(prices) : x.stock = s} |-> CopiesIn(r, prices)]

\* portfoliostock_set of portfolio p
portfoliostock_set(p) ==
  [r \in {x \in BagToSet(holdings) : x.portfolio = p} |-> CopiesIn(r, holdings)]

\* the rows of stock s dated d, as QuerySet.get(date=d) and the store's
\* unique_together check see them
RowsOn(s, d) ==
  [r \in {x \in BagToSet(prices) : x.stock = s /\ x.date = d} |-> CopiesIn(r, prices)]

\* Stock.price with order_by("date") for order_by("-date")
price_oldest_first(s, at_date) ==
  LET exact == RowsOn(s, at_date)
      before == {r \in BagToSet(stockprice_set(s)) : r.date < at_date}
  IN IF BagCardinality(exact) = 1
       THEN Return((CHOOSE r \in BagToSet(exact) : TRUE).price, 17)
     ELSE IF BagCardinality(exact) > 1
       THEN Raise("MultipleObjectsReturned", 16)
     ELSE IF before # {}
       THEN Return((CHOOSE r \in before : \A r2 \in before : r.date <= r2.date).price, 24)
     ELSE ReturnNone(26)

\* Stock.price with the filter(date__lt=at_date) left out
price_unfiltered(s, at_date) ==
  LET exact == RowsOn(s, at_date)
      any == BagToSet(stockprice_set(s))
  IN IF BagCardinality(exact) = 1
       THEN Return((CHOOSE r \in BagToSet(exact) : TRUE).price, 17)
     ELSE IF BagCardinality(exact) > 1
       THEN Raise("MultipleObjectsReturned", 16)
     ELSE IF any # {}
       THEN Return((CHOOSE r \in any : \A r2 \in any : r2.date <= r.date).price, 24)
     ELSE ReturnNone(26)

\* ---- Stock.price ----
price(s, at_date) ==
  LET exact == RowsOn(s, at_date)
      before == {r \in BagToSet(stockprice_set(s)) : r.date < at_date}
  IN IF BagCardinality(exact) = 1
       THEN Return((CHOOSE r \in BagToSet(exact) : TRUE).price, 17)
     ELSE IF BagCardinality(exact) > 1
       THEN Raise("MultipleObjectsReturned", 16)
     ELSE IF before # {}
       THEN Return((CHOOSE r \in before : \A r2 \in before : r2.date <= r.date).price, 24)
     ELSE ReturnNone(26)

\* ---- PortfolioStock.value_at / current_value ----
\* quantity * None raises TypeError
times_price(ps, at_date, line) ==
  LET stock_price == price(ps.stock, at_date)
  IN IF stock_price.kind = "raise" THEN stock_price
     ELSE IF stock_price.kind = "none" THEN Raise("TypeError", line)
     ELSE Return(ps.quantity * stock_price.value, line)

value_at(ps, at_date) == times_price(ps, at_date, 122)

current_value(ps, today) == times_price(ps, today, 118)

\* ---- Portfolio.total_value ----
\* the for loop of lines 60-65 over the rows still to visit
RECURSIVE total_loop(_, _, _)
total_loop(rows, at_date, total) ==
  IF BagToSet(rows) = {} THEN Return(total, 67)
  ELSE LET portfolio_stock == CHOOSE r \in BagToSet(rows) : TRUE
           stock_price == price(portfolio_stock.stock, at_date)
           rest == rows (-) OneRow(portfolio_stock)
       IN IF stock_price.kind = "raise" THEN stock_price
          ELSE IF stock_price.kind = "value"
            THEN total_loop(rest, at_date,
                            total + portfolio_stock.quantity * stock_price.value)
          ELSE total_loop(rest, at_date, total)

\* Portfolio.total_value without the "is not None" test of line 62
RECURSIVE total_loop_unguarded(_, _, _)
total_loop_unguarded(rows, at_date, total) ==
  IF BagToSet(rows) = {} THEN Return(total, 67)
  ELSE LET portfolio_stock == CHOOSE r \in BagToSet(rows) : TRUE
           stock_price == price(portfolio_stock.stock, at_date)
           rest == rows (-) OneRow(portfolio_stock)
       IN IF stock_price.kind = "raise" THEN stock_price
          ELSE IF stock_price.kind = "none" THEN Raise("TypeError", 63)
          ELSE total_loop_unguarded(rest, at_date,
                                    total + portfolio_stock.quantity * stock_price.value)

total_value_unguarded(p, at_date, today) ==
  total_loop_unguarded(portfoliostock_set(p),
                       IF at_date = <<>> THEN today ELSE at_date[1], 0)

\* the optional argument at_date: NoDate is the default None of line 49,
\* OnDate(d) a date the caller gives
NoDate == <<>>

OnDate(d) == <<d>>

total_value(p, at_date, today) ==
  LET d == IF at_date = NoDate THEN today ELSE at_date[1]
  IN total_loop(portfoliostock_set(p), d, 0)

\* Portfolio.profit with the range test of annualized_return (<= for <)
profit_strict(p, start_date, end_date) ==
  IF end_date <= start_date THEN Raise("ValueError", 75)
  ELSE LET start_value == total_value(p, OnDate(start_date), start_date)
           end_value == total_value(p, OnDate(end_date), end_date)
       IN IF start_value.kind = "raise" THEN start_value
          ELSE IF end_value.kind = "raise" THEN end_value
          ELSE Return(end_value.value - start_value.value, 79)

\* ---- Portfolio.profit ----
profit(p, start_date, end_date) ==
  IF end_date < start_date THEN Raise("ValueError", 75)
  ELSE LET start_value == total_value(p, OnDate(start_date), start_date)
           end_value == total_value(p, OnDate(end_date), end_date)
       IN IF start_value.kind = "raise" THEN start_value
          ELSE IF end_value.kind = "raise" THEN end_value
          ELSE Return(end_value.value - start_value.value, 79)

\* ---- Portfolio.annualized_return ----
\* 365.25 as the fraction YearHundredths / 100
YearHundredths == 36525

\* Portfolio.annualized_return with the range test of profit (< for <=)
annualized_return_lenient(p, start_date, end_date) ==
  IF end_date < start_date THEN Raise("ValueError", 88)
  ELSE LET start_value == total_value(p, OnDate(start_date), start_date)
           end_value == total_value(p, OnDate(end_date), end_date)
           days_between == end_date - start_date
           years_num == days_between * 100
       IN IF start_value.kind = "raise" THEN start_value
          ELSE IF end_value.kind = "raise" THEN end_value
          ELSE IF start_value.value = 0 THEN Return(0, 94)
          ELSE IF years_num <= 0 THEN Return(0, 100)
          ELSE Formula(end_value.value, start_value.value, years_num,
                       YearHundredths, 103)

\* Portfolio.annualized_return without the start_value == 0 test of line 93:
\* the division of line 102 raises
annualized_return_unguarded(p, start_date, end_date) ==
  IF end_date <= start_date THEN Raise("ValueError", 88)
  ELSE LET start_value == total_value(p, OnDate(start_date), start_date)
           end_value == total_value(p, OnDate(end_date), end_date)
           days_between == end_date - start_date
           years_num == days_between * 100
       IN IF start_value.kind = "raise" THEN start_value
          ELSE IF end_value.kind = "raise" THEN end_value
          ELSE IF years_num <= 0 THEN Return(0, 100)
          ELSE IF start_value.value = 0 THEN Raise("ZeroDivisionError", 102)
          ELSE Formula(end_value.value, start_value.value, years_num,
                       YearHundredths, 103)

\* Portfolio.annualized_return with the subtraction of line 96 reversed
annualized_return_reversed(p, start_date, end_date) ==
  IF end_date <= start_date THEN Raise("ValueError", 88)
  ELSE LET start_value == total_value(p, OnDate(start_date), start_date)
           end_value == total_value(p, OnDate(end_date), end_date)
           days_between == start_date - end_date
           years_num == days_between * 100
       IN IF start_value.kind = "raise" THEN start_value
          ELSE IF end_value.kind = "raise" THEN end_value
          ELSE IF start_value.value = 0 THEN Return(0, 94)
          ELSE IF years_num <= 0 THEN Return(0, 100)
          ELSE Formula(end_value.value, start_value.value, years_num,
                       YearHundredths, 103)

annualized_return(p, start_date, end_date) ==
  IF end_date <= start_date THEN Raise("ValueError", 88)
  ELSE LET start_value == total_value(p, OnDate(start_date), start_date)
           end_value == total_value(p, OnDate(end_date), end_date)
           days_between == end_date - start_date
           \* years_between = years_num / YearHundredths
           years_num == days_between * 100
       IN IF start_value.kind = "raise" THEN start_value
          ELSE IF end_value.kind = "raise" THEN end_value
          ELSE IF start_value.value = 0 THEN Return(0, 94)
          ELSE IF years_num <= 0 THEN Return(0, 100)
          ELSE Formula(end_value.value, start_value.value, years_num,
                       YearHundredths, 103)

\* ---- the last operation and how it ended ----
Write(op, args, result) == [op |-> op, args |-> args, result |-> result]

Call(op, args, result) == [op |-> op, args |-> args, result |-> result]

Init ==
  /\ stocks = {}
  /\ portfolios = {}
  /\ prices = EmptyBag
  /\ holdings = EmptyBag
  /\ last = Write("init", <<>>, Saved)

\* ---- writes: Model.save / Model.delete under the schema's constraints ----
CreateStock(s) ==
  /\ s \notin stocks
  /\ stocks' = stocks \cup {s}
  /\ last' = Write("create_stock", <<s>>, Saved)
  /\ UNCHANGED <<portfolios, prices, holdings>>

\* deleting a stock with no cascade to the PortfolioStock rows
DeleteStock_keep_lots(s) ==
  /\ s \in stocks
  /\ stocks' = stocks \ {s}
  /\ prices' = [r \in {x \in BagToSet(prices) : x.stock # s} |-> CopiesIn(r, prices)]
  /\ last' = Write("delete_stock", <<s>>, Deleted(1 + BagCardinality(stockprice_set(s))))
  /\ UNCHANGED <<portfolios, holdings>>

\* on_delete=CASCADE of StockPrice.stock and PortfolioStock.stock
DeleteStock(s) ==
  /\ s \in stocks
  /\ stocks' = stocks \ {s}
  /\ prices' = [r \in {x \in BagToSet(prices) : x.stock # s} |-> CopiesIn(r, prices)]
  /\ holdings' = [r \in {x \in BagToSet(holdings) : x.stock # s} |-> CopiesIn(r, holdings)]
  /\ last' = Write("delete_stock", <<s>>,
                 Deleted(1 + BagCardinality(stockprice_set(s))
                           + BagCardinality(holdings) - BagCardinality(holdings')))
  /\ UNCHANGED portfolios

CreatePortfolio(p) ==
  /\ p \notin portfolios
  /\ portfolios' = portfolios \cup {p}
  /\ last' = Write("create_portfolio", <<p>>, Saved)
  /\ UNCHANGED <<stocks, prices, holdings>>

\* on_delete=CASCADE of PortfolioStock.portfolio
DeletePortfolio(p) ==
  /\ p \in portfolios
  /\ portfolios' = portfolios \ {p}
  /\ holdings' = [r \in {x \in BagToSet(holdings) : x.portfolio # p} |-> CopiesIn(r, holdings)]
  /\ last' = Write("delete_portfolio", <<p>>,
                 Deleted(1 + BagCardinality(portfoliostock_set(p))))
  /\ UNCHANGED <<stocks, prices>>

\* saving a StockPrice row with no unique_together in Meta
InsertPrice_any(r) ==
  /\ IF r.stock \notin stocks
       THEN /\ last' = Write("insert_price", <<r>>, Raise("IntegrityError", 33))
            /\ UNCHANGED prices
     ELSE /\ BagCardinality(prices) < MaxPriceRows
          /\ prices' = prices (+) OneRow(r)
          /\ last' = Write("insert_price", <<r>>, Saved)
  /\ UNCHANGED <<stocks, portfolios, holdings>>

\* saving a new StockPrice row: the foreign key must resolve, and
\* unique_together = ("stock", "date") rejects a second row of the pair
InsertPrice(r) ==
  /\ IF r.stock \notin stocks
       THEN /\ last' = Write("insert_price", <<r>>, Raise("IntegrityError", 33))
            /\ UNCHANGED prices
     ELSE IF BagCardinality(RowsOn(r.stock, r.date)) > 0
       THEN /\ last' = Write("insert_price", <<r>>, Raise("IntegrityError", 38))
            /\ UNCHANGED prices
     ELSE /\ BagCardinality(prices) < MaxPriceRows
          /\ prices' = prices (+) OneRow(r)
          /\ last' = Write("insert_price", <<r>>, Saved)
  /\ UNCHANGED <<stocks, portfolios, holdings>>

DeletePrice(r) ==
  /\ BagIn(r, prices)
  /\ prices' = prices (-) OneRow(r)
  /\ last' = Write("delete_price", <<r>>, Deleted(1))
  /\ UNCHANGED <<stocks, portfolios, holdings>>

\* saving a new PortfolioStock row: both foreign keys must resolve
InsertHolding(r) ==
  /\ IF r.stock \notin stocks
       THEN /\ last' = Write("insert_holding", <<r>>, Raise("IntegrityError", 110))
            /\ UNCHANGED holdings
     ELSE IF r.portfolio \notin portfolios
       THEN /\ last' = Write("insert_holding", <<r>>, Raise("IntegrityError", 111))
            /\ UNCHANGED holdings
     ELSE /\ BagCardinality(holdings) < MaxHoldings
          /\ holdings' = holdings (+) OneRow(r)
          /\ last' = Write("insert_holding", <<r>>, Saved)
  /\ UNCHANGED <<stocks, portfolios, prices>>

DeleteHolding(r) ==
  /\ BagIn(r, holdings)
  /\ holdings' = holdings (-) OneRow(r)
  /\ last' = Write("delete_holding", <<r>>, Deleted(1))
  /\ UNCHANGED <<stocks, portfolios, prices>>

\* ---- calls of the valuation methods: the store is only read ----
CallPrice(s, at_date) ==
  /\ s \in stocks
  /\ last' = Call("price", <<s, at_date>>, price(s, at_date))
  /\ UNCHANGED <<stocks, portfolios, prices, holdings>>

CallValueAt(ps, at_date) ==
  /\ BagIn(ps, holdings)
  /\ last' = Call("value_at", <<ps, at_date>>, value_at(ps, at_date))
  /\ UNCHANGED <<stocks, portfolios, prices, holdings>>

\* date.today() is whatever day the call runs on
CallCurrentValue(ps, today) ==
  /\ BagIn(ps, holdings)
  /\ last' = Call("current_value", <<ps, today>>, current_value(ps, today))
  /\ UNCHANGED <<stocks, portfolios, prices, holdings>>

\* an explicit at_date
CallTotalValue(p, at_date) ==
  /\ p \in portfolios
  /\ last' = Call("total_value", <<p, at_date>>, total_value(p, OnDate(at_date), at_date))
  /\ UNCHANGED <<stocks, portfolios, prices, holdings>>

\* the default at_date=None on the day today
CallTotalValueToday(p, today) ==
  /\ p \in portfolios
  /\ last' = Call("total_value_today", <<p, today>>, total_value(p, NoDate, today))
  /\ UNCHANGED <<stocks, portfolios, prices, holdings>>

CallProfit(p, start_date, end_date) ==
  /\ p \in portfolios
  /\ last' = Call("profit", <<p, start_date, end_date>>, profit(p, start_date, end_date))
  /\ UNCHANGED <<stocks, portfolios, prices, holdings>>

CallAnnualizedReturn(p, start_date, end_date) ==
  /\ p \in portfolios
  /\ last' = Call("annualized_return", <<p, start_date, end_date>>,
                  annualized_return(p, start_date, end_date))
  /\ UNCHANGED <<stocks, portfolios, prices, holdings>>

\* ---- specifications ----
StoreStep(PriceRows, HoldingRows) ==
  \/ \E s \in StockIds : CreateStock(s)
  \/ \E s \in StockIds : DeleteStock(s)
  \/ \E p \in PortfolioIds : CreatePortfolio(p)
  \/ \E p \in PortfolioIds : DeletePortfolio(p)
  \/ \E r \in PriceRows : InsertPrice(r)
  \/ \E r \in PriceRows : DeletePrice(r)
  \/ \E r \in HoldingRows : InsertHolding(r)
  \/ \E r \in HoldingRows : DeleteHolding(r)

\* every operation over every input
Next ==
  \/ StoreStep(StockPrice, PortfolioStock)
  \/ \E s \in StockIds, d \in QueryDates : CallPrice(s, d)
  \/ \E r \in PortfolioStock, d \in QueryDates : CallValueAt(r, d)
  \/ \E r \in PortfolioStock, d \in QueryDates : CallCurrentValue(r, d)
  \/ \E p \in PortfolioIds, d \in QueryDates : CallTotalValue(p, d)
  \/ \E p \in PortfolioIds, d \in QueryDates : CallTotalValueToday(p, d)
  \/ \E p \in PortfolioIds, s \in QueryDates, e \in QueryDates : CallProfit(p, s, e)
  \/ \E p \in PortfolioIds, s \in QueryDates, e \in QueryDates : CallAnnualizedReturn(p, s, e)

Spec == Init /\ [][Next]_vars

\* stocks and their price history, and Stock.price
NextPrice ==
  \/ \E s \in StockIds : CreateStock(s)
  \/ \E s \in StockIds : DeleteStock(s)
  \/ \E r \in StockPrice : InsertPrice(r)
  \/ \E r \in StockPrice : DeletePrice(r)
  \/ \E s \in StockIds, d \in QueryDates : CallPrice(s, d)

SpecPrice == Init /\ [][NextPrice]_vars

\* price rows in which each stock is quoted at one price of its own
QuotedRows == {r \in StockPrice : r.price = (IF r.stock = 1 THEN 10 ELSE 12)}

\* the writes alone, over all four tables
NextStore == StoreStep(QuotedRows, PortfolioStock)

SpecStore == Init /\ [][NextStore]_vars

\* the writes and Portfolio.total_value
NextTotal ==
  \/ StoreStep(QuotedRows, PortfolioStock)
  \/ \E p \in PortfolioIds, d \in QueryDates : CallTotalValue(p, d)
  \/ \E p \in PortfolioIds, d \in QueryDates : CallTotalValueToday(p, d)

SpecTotal == Init /\ [][NextTotal]_vars

\* the price history of stock 1 and the lots of it in portfolio 1
FirstStockRows == {r \in StockPrice : r.stock = 1}

FirstLots == {r \in PortfolioStock : r.stock = 1 /\ r.portfolio = 1}

\* the writes and PortfolioStock.value_at / current_value
NextHolding ==
  \/ StoreStep(FirstStockRows, FirstLots)
  \/ \E r \in FirstLots, d \in QueryDates : CallValueAt(r, d)
  \/ \E r \in FirstLots, d \in QueryDates : CallCurrentValue(r, d)

SpecHolding == Init /\ [][NextHolding]_vars

\* the writes and Portfolio.profit / annualized_return
NextReturn ==
  \/ StoreStep(FirstStockRows, FirstLots)
  \/ \E p \in PortfolioIds, s \in QueryDates, e \in QueryDates : CallProfit(p, s, e)
  \/ \E p \in PortfolioIds, s \in QueryDates, e \in QueryDates : CallAnnualizedReturn(p, s, e)

SpecReturn == Init /\ [][NextReturn]_vars

\* ---- properties ----
\* the sum of the values of a function with a finite domain
RECURSIVE SumOf(_)
SumOf(f) ==
  IF DOMAIN f = {} THEN 0
  ELSE LET x == CHOOSE y \in DOMAIN f : TRUE
       IN f[x] + SumOf([y \in DOMAIN f \ {x} |-> f[y]])

\* the rows of stock s dated on or before day d, in the table B and in the store
OnOrBeforeIn(B, s, d) == {r \in BagToSet(B) : r.stock = s /\ r.date <= d}

OnOrBefore(s, d) == OnOrBeforeIn(prices, s, d)

\* C1: whenever Stock.price(D) is called on a stock with an observation dated
\* on or before D, it returns the price of the observation with the greatest
\* date <= D (the one dated D if there is one, else the latest before D).
C1_PriceIsLatestOnOrBefore ==
  last.op = "price" =>
    LET s == last.args[1]
        D == last.args[2]
    IN OnOrBefore(s, D) # {} =>
         \E r \in OnOrBefore(s, D) :
           /\ \A r2 \in OnOrBefore(s, D) : r2.date <= r.date
           /\ last.result.kind = "value"
           /\ last.result.value = r.price

\* a call between two earlier observations of different price and no exact match
C1_Witness ==
  /\ last.op = "price"
  /\ \E r1, r2 \in OnOrBefore(last.args[1], last.args[2]) :
       /\ r1.date < r2.date
       /\ r2.date < last.args[2]
       /\ r1.price # r2.price
       /\ last.result = Return(r2.price, 24)

\* C2: Stock.price(D) is absent when the stock has no observation dated on or
\* before D, and no step that leaves the stock's observations dated <= D as they
\* are (so adds or removes only later ones) changes Stock.price(D).
C2_NoLookahead ==
  [][ /\ last'.op = "price" =>
           (OnOrBeforeIn(prices', last'.args[1], last'.args[2]) = {}
              => last'.result.kind = "none")
      /\ \A s \in StockIds, D \in QueryDates :
           (/\ s \in stocks
            /\ s \in stocks'
            /\ [r \in OnOrBefore(s, D) |-> CopiesIn(r, prices)]
                 = [r \in OnOrBeforeIn(prices', s, D) |-> CopiesIn(r, prices')])
           => price(s, D)' = price(s, D) ]_vars

\* a call that answers absent while a later observation of the stock is stored
C2_Witness ==
  /\ last.op = "price"
  /\ last.result = ReturnNone(26)
  /\ \E r \in BagToSet(prices) : r.stock = last.args[1] /\ r.date > last.args[2]

\* no (stock, date) pair is stored twice, by equal rows or by rows of different price
AtMostOnePerDate ==
  \A r1 \in BagToSet(prices) :
    /\ CopiesIn(r1, prices) = 1
    /\ \A r2 \in BagToSet(prices) :
         (r1.stock = r2.stock /\ r1.date = r2.date) => r1 = r2

\* C8: no stock ever has two observations of one date, and an insertion for
\* a (stock, date) pair that already has an observation is rejected and leaves
\* the stored observations as they were; the exact-date lookup of Stock.price
\* never fails on several matches.
C8_UniquePerStockAndDate ==
  [][ /\ AtMostOnePerDate'
      /\ last'.op = "insert_price" =>
           LET r == last'.args[1]
           IN (\E x \in BagToSet(prices) : x.stock = r.stock /\ x.date = r.date)
                => (last'.result.kind = "raise" /\ prices' = prices)
      /\ last'.op = "price" => last'.result.kind # "raise" ]_vars

\* a second observation for a stored (stock, date) pair was offered and refused
C8_Witness ==
  /\ last.op = "insert_price"
  /\ last.result = Raise("IntegrityError", 38)
  /\ \E x \in BagToSet(prices) :
       /\ x.stock = last.args[1].stock
       /\ x.date = last.args[1].date
       /\ x.price # last.args[1].price

\* C10: every stored price observation references an existing stock and every
\* stored holding references an existing stock and an existing portfolio.
C10_NoDanglingReference ==
  /\ \A r \in BagToSet(prices) : r.stock \in stocks
  /\ \A r \in BagToSet(holdings) : r.stock \in stocks /\ r.portfolio \in portfolios

\* a stock was deleted together with a price observation and a holding of it,
\* while rows of the other stock remain
C10_Witness ==
  /\ last.op = "delete_stock"
  /\ last.result.rows >= 3
  /\ BagToSet(prices) # {}
  /\ BagToSet(holdings) # {}

\* the value of the lots of portfolio p on day d: quantity * price over the
\* rows whose stock has a price that day, every copy of a row counted
PricedValue(p, d) ==
  LET lots == {r \in BagToSet(holdings) : r.portfolio = p /\ price(r.stock, d).kind = "value"}
  IN SumOf([r \in lots |-> CopiesIn(r, holdings) * r.quantity * price(r.stock, d).value])

\* C3: Portfolio.total_value(D) never fails and returns the sum of
\* quantity * Stock.price(D) over the portfolio's holdings whose stock has a
\* price at D, each lot counted; holdings without a price add nothing, and a
\* portfolio without holdings is worth 0.
C3_TotalValueSkipsAbsent ==
  last.op \in {"total_value", "total_value_today"} =>
    LET p == last.args[1]
        D == last.args[2]
    IN /\ last.result.kind = "value"
       /\ last.result.value = PricedValue(p, D)
       /\ portfoliostock_set(p) = EmptyBag => last.result.value = 0

\* a total over a portfolio holding one stock with a price and one without
C3_Witness ==
  /\ last.op = "total_value"
  /\ \E h1, h2 \in BagToSet(holdings) :
       /\ h1.portfolio = last.args[1]
       /\ h2.portfolio = last.args[1]
       /\ price(h1.stock, last.args[2]).kind = "none"
       /\ price(h2.stock, last.args[2]).kind = "value"
       /\ last.result = Return(h2.quantity * price(h2.stock, last.args[2]).value, 67)
       /\ last.result.value > 0

\* what Portfolio.total_value returns for an explicit date
ValueOn(p, d) == total_value(p, OnDate(d), d).value

\* C4: Portfolio.profit(s, e) raises ValueError when e < s and otherwise
\* returns total_value(e) - total_value(s); profit(s, s) returns 0.
C4_ProfitRange ==
  last.op = "profit" =>
    LET p == last.args[1]
        s == last.args[2]
        e == last.args[3]
    IN IF e < s
         THEN last.result.kind = "raise" /\ last.result.exc = "ValueError"
       ELSE /\ last.result.kind = "value"
            /\ last.result.value = ValueOn(p, e) - ValueOn(p, s)
            /\ e = s => last.result.value = 0

\* profit over equal dates on a portfolio that is worth something that day
C4_Witness ==
  /\ last.op = "profit"
  /\ last.args[2] = last.args[3]
  /\ ValueOn(last.args[1], last.args[2]) > 0
  /\ last.result = Return(0, 79)

\* C5: Portfolio.annualized_return(s, e) raises ValueError whenever e <= s,
\* whatever the portfolio holds.
C5_AnnualizedRange ==
  (last.op = "annualized_return" /\ last.args[3] <= last.args[2]) =>
    /\ last.result.kind = "raise"
    /\ last.result.exc = "ValueError"

\* annualized_return over equal dates on a portfolio worth 0 that day
C5_Witness ==
  /\ last.op = "annualized_return"
  /\ last.args[2] = last.args[3]
  /\ BagToSet(portfoliostock_set(last.args[1])) # {}
  /\ ValueOn(last.args[1], last.args[2]) = 0
  /\ last.result = Raise("ValueError", 88)

\* C6: for s < e with total_value(s) = 0, Portfolio.annualized_return(s, e)
\* returns 0 from the start-value test, before the division of the formula.
C6_ZeroStartValue ==
  (/\ last.op = "annualized_return"
   /\ last.args[2] < last.args[3]
   /\ ValueOn(last.args[1], last.args[2]) = 0) =>
    last.result = Return(0, 94)

\* a start value of 0 with an end value above 0
C6_Witness ==
  /\ last.op = "annualized_return"
  /\ last.args[2] < last.args[3]
  /\ ValueOn(last.args[1], last.args[2]) = 0
  /\ ValueOn(last.args[1], last.args[3]) > 0
  /\ last.result = Return(0, 94)

\* C7: PortfolioStock.value_at(D) returns quantity * Stock.price(D) when the
\* price is present and the absent value, not an exception and not 0, when it
\* is absent.
C7_ValueAtPropagatesAbsence ==
  last.op = "value_at" =>
    LET ps == last.args[1]
        D == last.args[2]
    IN IF price(ps.stock, D).kind = "value"
         THEN /\ last.result.kind = "value"
              /\ last.result.value = ps.quantity * price(ps.stock, D).value
       ELSE last.result.kind = "none"

\* C9: Portfolio.annualized_return never returns from the years_between <= 0
\* test of line 100: past the range test and the start-value test the elapsed
\* time is positive and the formula is reached.
C9_YearsGuardUnreachable ==
  last.op = "annualized_return" =>
    /\ last.result.kind # "raise" => last.result.line \in {94, 103}
    /\ (last.args[2] < last.args[3] /\ ValueOn(last.args[1], last.args[2]) # 0) =>
         /\ last.result.kind = "formula"
         /\ last.result.line = 103
         /\ last.result.years_num >= 100

\* a call that reaches the formula
C9_Witness ==
  /\ last.op = "annualized_return"
  /\ last.result.kind = "formula"
  /\ last.result.end_value # last.result.start_value
====
